---- MODULE Spec2Model ----
(***************************************************************************)
(* Weather-alert widget (src/index.js): input validation, one HTTP GET,    *)
(* DOM rendering, and the click / Enter handler that ties them together.   *)
(*                                                                         *)
(* Strings the code inspects character by character (the input value, the  *)
(* area of a request) are sequences of one-character strings; strings the  *)
(* code only builds and shows (messages, labels, rendered text) are TLA+   *)
(* strings built with \o.                                                  *)
(***************************************************************************)
EXTENDS Integers, Sequences, FiniteSets, TLC

\* ---------------------------------------------------------------- bounds
MaxLen == 3          \* longest raw input the user types
MaxCycles == 2       \* invocations of handleGetAlerts in one behaviour
MaxAlerts == 3       \* longest features array given to displayAlerts alone

\* ------------------------------------------------------- text primitives
Alphabet == {" ", "n", "Y", "1"}

WhiteSpace == {" ", "\t", "\n"}

LowerLetters == <<"a","b","c","d","e","f","g","h","i","j","k","l","m",
                  "n","o","p","q","r","s","t","u","v","w","x","y","z">>

UpperLetters == <<"A","B","C","D","E","F","G","H","I","J","K","L","M",
                  "N","O","P","Q","R","S","T","U","V","W","X","Y","Z">>

UpperSet == {UpperLetters[k] : k \in 1..26}

Digits == <<"0","1","2","3","4","5","6","7","8","9">>

\* `${n}` for a non-negative integer
RECURSIVE DecStr(_)
DecStr(n) == IF n < 10 THEN Digits[n + 1]
             ELSE DecStr(n \div 10) \o Digits[(n % 10) + 1]

\* String.prototype.trim
RECURSIVE TrimStart(_)
TrimStart(s) == IF s # <<>> /\ Head(s) \in WhiteSpace THEN TrimStart(Tail(s)) ELSE s

RECURSIVE TrimEnd(_)
TrimEnd(s) == IF s # <<>> /\ s[Len(s)] \in WhiteSpace
              THEN TrimEnd(SubSeq(s, 1, Len(s) - 1)) ELSE s

Trim(s) == TrimEnd(TrimStart(s))

\* String.prototype.toUpperCase, one character (ASCII: a letter maps to its
\* capital, every other character to itself)
UpperChar(c) ==
  IF \E k \in 1..26 : LowerLetters[k] = c
  THEN <<UpperLetters[CHOOSE k \in 1..26 : LowerLetters[k] = c]>>
  ELSE <<c>>

RECURSIVE ToUpperCase(_)
ToUpperCase(s) == IF s = <<>> THEN <<>> ELSE UpperChar(Head(s)) \o ToUpperCase(Tail(s))

\* /^[A-Z]{2}$/.test(s)
RegexTwoUpper(s) == Len(s) = 2 /\ \A k \in 1..Len(s) : s[k] \in UpperSet

RECURSIVE SeqsUpTo(_, _)
SeqsUpTo(S, n) == IF n = 0 THEN {<<>>}
                  ELSE LET shorter == SeqsUpTo(S, n - 1)
                       IN shorter \cup {Append(s, x) : s \in {t \in shorter : Len(t) = n - 1}, x \in S}

Inputs == SeqsUpTo(Alphabet, MaxLen)

\* ------------------------------------------------------------- JS values
\* The values validateStateInput can be handed or can return.
JSString(s) == [type |-> "string", str |-> s, bool |-> FALSE]

JSBool(b) == [type |-> "boolean", str |-> <<>>, bool |-> b]

\* !v
Not(v) == IF v.type = "string" THEN v.str = <<>> ELSE ~v.bool

\* ------------------------------------------------------------- messages
EmptyInputMessage == "Please enter a state abbreviation"

WrongFormatMessage == "State abbreviation must be exactly 2 letters"

TrimTypeErrorMessage == "state.trim is not a function"

NullDataMessage == "Cannot read properties of null (reading 'title')"

NetworkErrorMessage == "Failed to fetch"

ParseErrorMessage == "Unexpected token < in JSON at position 0"

DefaultTitle == "Current watches, warnings, and advisories"

NoHeadline == "No headline available"

IdleLabel == "Get Weather Alerts"

LoadingLabel == "Loading..."

\* the API error message without the status text
ApiErrorStatusOnly(response) == "API Error: " \o DecStr(response.status)

\* `API Error: ${response.status} ${response.statusText}`
ApiErrorMessage(response) ==
  "API Error: " \o DecStr(response.status) \o " " \o response.statusText

\* ------------------------------------------------------------ Validator
Returned(v) == [thrown |-> FALSE, message |-> "", value |-> v]

Thrown(msg) == [thrown |-> TRUE, message |-> msg, value |-> JSBool(FALSE)]

\* validateStateInput testing the trimmed input without uppercasing it
validateNoUpperCase(state) ==
  IF Not(state) THEN Thrown(EmptyInputMessage)
  ELSE IF state.type # "string" THEN Thrown(TrimTypeErrorMessage)
  ELSE IF Trim(state.str) = <<>> THEN Thrown(EmptyInputMessage)
  ELSE IF ~RegexTwoUpper(Trim(state.str)) THEN Thrown(WrongFormatMessage)
  ELSE Returned(JSBool(TRUE))

\* validateStateInput testing only !state, not state.trim() === ''
validateNoBlankCheck(state) ==
  IF Not(state) THEN Thrown(EmptyInputMessage)
  ELSE IF state.type # "string" THEN Thrown(TrimTypeErrorMessage)
  ELSE IF ~RegexTwoUpper(ToUpperCase(Trim(state.str))) THEN Thrown(WrongFormatMessage)
  ELSE Returned(JSBool(TRUE))

validateStateInput(state) ==
  IF Not(state) THEN Thrown(EmptyInputMessage)
  ELSE IF state.type # "string" THEN Thrown(TrimTypeErrorMessage)
  ELSE IF Trim(state.str) = <<>> THEN Thrown(EmptyInputMessage)
  ELSE LET trimmedState == ToUpperCase(Trim(state.str))
       IN IF Len(trimmedState) # 2 \/ ~RegexTwoUpper(trimmedState)
          THEN Thrown(WrongFormatMessage)
          ELSE Returned(JSBool(TRUE))

\* normalizedState without the toUpperCase()
normalizedStateNoUpper(stateValue) == Trim(stateValue)

\* stateValue.trim().toUpperCase()
normalizedState(stateValue) == ToUpperCase(Trim(stateValue))

\* ---------------------------------------------------------------- state
VARIABLES
  present,   \* which of the four elements getElementById finds
  ui,        \* the DOM state the code reads and writes
  cycles     \* one record per invocation of handleGetAlerts

vars == <<present, ui, cycles>>

Elements == {"state-input", "fetch-alerts", "error-message", "alerts-display"}

CycleIds == 1..MaxCycles

\* ------------------------------------------------------ HTTP and payloads
\* response.ok is the platform's: the status is in the range 200-299
ResponseOk(status) == status \in 200..299

Response(status, statusText) ==
  [ok |-> ResponseOk(status), status |-> status, statusText |-> statusText]

NoResponse == [ok |-> FALSE, status |-> 0, statusText |-> ""]

Responses == {Response(200, "OK"),
              Response(404, "Not Found"),
              Response(500, "Internal Server Error")}

\* An optional string is <<>> (absent) or <<s>>.
Alert(hasProperties, headline) == [properties |-> hasProperties, headline |-> headline]

AlertKinds == {Alert(FALSE, <<>>), Alert(TRUE, <<>>), Alert(TRUE, <<"">>),
               Alert(TRUE, <<"H1">>), Alert(TRUE, <<"H2">>)}

NoFeatures == [present |-> FALSE, list |-> <<>>]

Features(list) == [present |-> TRUE, list |-> list]

Data(title, features) == [kind |-> "object", title |-> title, features |-> features]

NullData == [kind |-> "null", title |-> <<>>, features |-> NoFeatures]

NoData == [kind |-> "none", title |-> <<>>, features |-> NoFeatures]

\* the payloads the endpoint answers with in a trigger cycle
EmptyObject == Data(<<>>, NoFeatures)

TwoAlerts == Data(<<"T">>, Features(<<Alert(TRUE, <<"H1">>), Alert(TRUE, <<>>)>>))

Bodies == {NullData, EmptyObject, TwoAlerts}

\* every AlertResponse with up to MaxAlerts alerts
Titles == {<<>>, <<"">>, <<"T">>, <<"U">>}

AlertResponses ==
  {Data(t, f) : t \in Titles,
                f \in {NoFeatures} \cup {Features(l) : l \in SeqsUpTo(AlertKinds, MaxAlerts)}}

\* ------------------------------------------------------------ Presenter
\* A call either completes or raises; either way it may have written the DOM.
Completed(u) == [ui |-> u, thrown |-> FALSE, message |-> ""]

Raised(u, msg) == [ui |-> u, thrown |-> TRUE, message |-> msg]

\* x || fallback, for an optional string
OrElse(opt, fallback) == IF opt = <<>> \/ opt[1] = "" THEN fallback ELSE opt[1]

\* alert.properties?.headline
Headline(alert) == IF alert.properties THEN alert.headline ELSE <<>>

Paragraph(text) ==
  [tag |-> "p", className |-> "summary-message", textContent |-> text, items |-> <<>>]

List(items) ==
  [tag |-> "ul", className |-> "alerts-list", textContent |-> "", items |-> items]

\* displayAlerts without line 43: it appends to what the display holds
displayAlertsAppends(u, data) ==
  IF ~present["alerts-display"] THEN Completed(u)
  ELSE IF data.kind = "null" THEN Raised(u, NullDataMessage)
  ELSE LET title == OrElse(data.title, DefaultTitle)
           alertCount == IF data.features.present THEN Len(data.features.list) ELSE 0
           summaryMessage == Paragraph(title \o ": " \o DecStr(alertCount))
           headlinesList ==
             List([k \in 1..alertCount |->
                     OrElse(Headline(data.features.list[k]), NoHeadline)])
       IN IF data.features.present /\ Len(data.features.list) > 0
          THEN Completed([u EXCEPT !.display = @ \o <<summaryMessage, headlinesList>>])
          ELSE Completed([u EXCEPT !.display = @ \o <<summaryMessage>>])

displayAlerts(u, data) ==
  IF ~present["alerts-display"] THEN Completed(u)
  ELSE LET cleared == [u EXCEPT !.display = <<>>]
       IN IF data.kind = "null" THEN Raised(cleared, NullDataMessage)
          ELSE LET title == OrElse(data.title, DefaultTitle)
                   alertCount == IF data.features.present THEN Len(data.features.list) ELSE 0
                   summaryMessage == Paragraph(title \o ": " \o DecStr(alertCount))
                   headlinesList ==
                     List([k \in 1..alertCount |->
                             OrElse(Headline(data.features.list[k]), NoHeadline)])
               IN IF data.features.present /\ Len(data.features.list) > 0
                  THEN Completed([u EXCEPT !.display = <<summaryMessage, headlinesList>>])
                  ELSE Completed([u EXCEPT !.display = <<summaryMessage>>])

\* displayError without the guard of lines 78-81: writing to a missing
\* element raises
displayErrorUnguarded(u, message) ==
  IF ~present["error-message"]
  THEN Raised(u, "Cannot set properties of null (setting 'textContent')")
  ELSE Completed([u EXCEPT !.errText = message, !.errHidden = FALSE])

displayError(u, message) ==
  IF ~present["error-message"] THEN Completed(u)
  ELSE Completed([u EXCEPT !.errText = message, !.errHidden = FALSE])

clearError(u) ==
  IF present["error-message"]
  THEN Completed([u EXCEPT !.errText = "", !.errHidden = TRUE])
  ELSE Completed(u)

\* clearInput that finds the element and leaves its value
clearInputKeepsValue(u) == Completed(u)

clearInput(u) ==
  IF present["state-input"] THEN Completed([u EXCEPT !.inputValue = <<>>]) ELSE Completed(u)

\* ------------------------------------------------- Action orchestrator
\* A cycle is one invocation of handleGetAlerts: where it is suspended (pc),
\* its locals (area is normalizedState while the request is out, response,
\* data, error), how it ended, and the calls and DOM writes it has made so far,
\* in program order (trace).
NewCycle ==
  [pc |-> "idle", outcome |-> "none", area |-> <<>>, response |-> NoResponse,
   data |-> NoData, error |-> "", uncaught |-> FALSE, trace |-> <<>>]

Event(ev, arg) == [ev |-> ev, arg |-> arg]

\* A frame is the DOM state together with the running cycle's trace.
Frame(u, tr) == [ui |-> u, trace |-> tr]

\* entering busy with the label changed and the control left enabled
EnterBusyLabelOnly(f) ==
  IF present["fetch-alerts"]
  THEN Frame([f.ui EXCEPT !.btnLabel = LoadingLabel],
             Append(f.trace, Event("busy", f.ui.btnLabel)))
  ELSE f

\* lines 146-150; the trace entry records the label that was showing
EnterBusy(f) ==
  IF present["fetch-alerts"]
  THEN Frame([f.ui EXCEPT !.btnDisabled = TRUE, !.btnLabel = LoadingLabel],
             Append(f.trace, Event("busy", f.ui.btnLabel)))
  ELSE f

\* lines 170-176
ExitBusy(f) ==
  IF present["fetch-alerts"]
  THEN Frame([f.ui EXCEPT !.btnDisabled = FALSE, !.btnLabel = IdleLabel],
             Append(f.trace, Event("unbusy", "")))
  ELSE f

\* a catch block with no finally block after it
CatchOnly(f, message) ==
  LET shown == displayError(f.ui, message)
  IN [ui |-> shown.ui, trace |-> Append(f.trace, Event("displayError", message)),
      uncaught |-> shown.thrown]

\* a catch block that also empties the input
CatchFinallyClearsInput(f, message) ==
  LET shown == displayError(clearInput(f.ui).ui, message)
      end == ExitBusy(Frame(shown.ui, Append(f.trace, Event("displayError", message))))
  IN [ui |-> end.ui, trace |-> end.trace, uncaught |-> shown.thrown]

\* The catch block followed by the finally block: what the handler does with
\* an error raised inside its try block. The handler's promise rejects only if
\* the catch block itself raises.
CatchFinally(f, message) ==
  LET shown == displayError(f.ui, message)
      end == ExitBusy(Frame(shown.ui, Append(f.trace, Event("displayError", message))))
  IN [ui |-> end.ui, trace |-> end.trace, uncaught |-> shown.thrown]

\* Cycle i ends in its catch block.
Fails(i, f, outcome, message) ==
  LET end == CatchFinally(f, message)
  IN /\ ui' = end.ui
     /\ cycles' = [cycles EXCEPT ![i].pc = "done", ![i].outcome = outcome,
                                 ![i].area = <<>>, ![i].error = message,
                                 ![i].uncaught = end.uncaught, ![i].trace = end.trace]

\* handleGetAlerts from its call to its first suspension (or to its end, when
\* the input element is missing or validation fails).
handleGetAlerts(i) ==
  /\ cycles[i].pc = "idle"
  /\ \A j \in 1..(i - 1) : cycles[j].pc # "idle"
  /\ UNCHANGED present
  /\ IF ~present["state-input"]
     THEN /\ cycles' = [cycles EXCEPT ![i].pc = "done", ![i].outcome = "noInput"]
          /\ UNCHANGED ui
     ELSE LET stateValue == ui.inputValue
              cleared == clearError(ui)
              called == Frame(cleared.ui, <<Event("clearError", "")>>)
              busy == EnterBusy(called)
              valid == validateStateInput(JSString(stateValue))
          IN IF cleared.thrown
             THEN /\ ui' = cleared.ui
                  /\ cycles' = [cycles EXCEPT ![i].pc = "done", ![i].outcome = "uncaught",
                                              ![i].error = cleared.message,
                                              ![i].uncaught = TRUE,
                                              ![i].trace = called.trace]
             ELSE IF valid.thrown
             THEN Fails(i, busy, "validation", valid.message)
             ELSE /\ ui' = busy.ui
                  /\ cycles' = [cycles EXCEPT
                                  ![i].pc = "awaitFetch",
                                  ![i].area = normalizedState(stateValue),
                                  ![i].trace = Append(busy.trace, Event("GET", ""))]

\* The three ways the handler is invoked (lines 187, 192-196, 211-219).
Click == \E i \in CycleIds :
  /\ present["fetch-alerts"]
  /\ ~ui.btnDisabled
  /\ handleGetAlerts(i)

EnterKey == \E i \in CycleIds :
  /\ present["state-input"]
  /\ handleGetAlerts(i)

DirectCall == \E i \in CycleIds : handleGetAlerts(i)

\* fetch() rejects: fetchWeatherAlerts logs and rethrows, the handler catches.
FetchRejects == \E i \in CycleIds :
  /\ cycles[i].pc = "awaitFetch"
  /\ UNCHANGED present
  /\ Fails(i, Frame(ui, cycles[i].trace), "network", NetworkErrorMessage)

\* fetch() resolves with a response: a non-ok one is thrown as an API error,
\* an ok one is read with response.json().
FetchResolves == \E i \in CycleIds, response \in Responses :
  /\ cycles[i].pc = "awaitFetch"
  /\ UNCHANGED present
  /\ IF ~response.ok
     THEN LET end == CatchFinally(Frame(ui, cycles[i].trace), ApiErrorMessage(response))
          IN /\ ui' = end.ui
             /\ cycles' = [cycles EXCEPT ![i].pc = "done", ![i].outcome = "http",
                                         ![i].area = <<>>,
                                         ![i].response = response,
                                         ![i].error = ApiErrorMessage(response),
                                         ![i].uncaught = end.uncaught,
                                         ![i].trace = end.trace]
     ELSE /\ cycles' = [cycles EXCEPT ![i].pc = "awaitJson", ![i].area = <<>>,
                                      ![i].response = response]
          /\ UNCHANGED ui

\* response.json() rejects: the body is not JSON.
JsonRejects == \E i \in CycleIds :
  /\ cycles[i].pc = "awaitJson"
  /\ UNCHANGED present
  /\ Fails(i, Frame(ui, cycles[i].trace), "parse", ParseErrorMessage)

\* response.json() resolves: lines 159-165, then the finally block.
JsonResolves == \E i \in CycleIds, data \in Bodies :
  /\ cycles[i].pc = "awaitJson"
  /\ UNCHANGED present
  /\ LET shown == displayAlerts(ui, data)
         tr1 == Append(cycles[i].trace, Event("displayAlerts", ""))
         emptied == clearInput(shown.ui)
         tr2 == Append(tr1, Event("clearInput", ""))
         caught == IF shown.thrown THEN CatchFinally(Frame(shown.ui, tr1), shown.message)
                   ELSE CatchFinally(Frame(emptied.ui, tr2), emptied.message)
         finished == ExitBusy(Frame(emptied.ui, tr2))
     IN IF shown.thrown \/ emptied.thrown
        THEN /\ ui' = caught.ui
             /\ cycles' = [cycles EXCEPT
                             ![i].pc = "done", ![i].outcome = "render", ![i].data = data,
                             ![i].error = IF shown.thrown THEN shown.message
                                          ELSE emptied.message,
                             ![i].uncaught = caught.uncaught, ![i].trace = caught.trace]
        ELSE /\ ui' = finished.ui
             /\ cycles' = [cycles EXCEPT ![i].pc = "done", ![i].outcome = "success",
                                         ![i].data = data, ![i].trace = finished.trace]

\* The user edits the input field, a keystroke at a time. Nothing reads the
\* field once the last invocation the model allows has begun.
UserTypes == \E c \in Alphabet :
  /\ present["state-input"]
  /\ \E i \in CycleIds : cycles[i].pc = "idle"
  /\ Len(ui.inputValue) < MaxLen
  /\ ui' = [ui EXCEPT !.inputValue = Append(@, c)]
  /\ UNCHANGED <<present, cycles>>

UserDeletes ==
  /\ present["state-input"]
  /\ \E i \in CycleIds : cycles[i].pc = "idle"
  /\ ui.inputValue # <<>>
  /\ ui' = [ui EXCEPT !.inputValue = SubSeq(@, 1, Len(@) - 1)]
  /\ UNCHANGED <<present, cycles>>

InitialUi ==
  [inputValue |-> <<>>, btnDisabled |-> FALSE, btnLabel |-> IdleLabel,
   errText |-> "", errHidden |-> TRUE, display |-> <<>>]

Init ==
  /\ present \in [Elements -> BOOLEAN]
  /\ ui = InitialUi
  /\ cycles = [i \in CycleIds |-> NewCycle]

Next ==
  \/ Click
  \/ EnterKey
  \/ DirectCall
  \/ FetchRejects
  \/ FetchResolves
  \/ JsonRejects
  \/ JsonResolves
  \/ UserTypes
  \/ UserDeletes

Spec == Init /\ [][Next]_vars

\* displayAlerts on its own, as the module exports it (lines 210-219): called
\* with any AlertResponse on whatever the display holds. cycles[1].data holds
\* the argument of the latest call.
displayAlertsCalled == \E data \in AlertResponses :
  /\ ui' = displayAlerts(ui, data).ui
  /\ cycles' = [cycles EXCEPT ![1].data = data]
  /\ UNCHANGED present

InitRender ==
  /\ present = [e \in Elements |-> TRUE]
  /\ ui = InitialUi
  /\ cycles = [i \in CycleIds |-> NewCycle]

NextRender == displayAlertsCalled

SpecRender == InitRender /\ [][NextRender]_vars

\* ================================================================ claims
Starting(i) == cycles[i].pc = "idle" /\ cycles'[i].pc # "idle"

Finishing(i) == cycles[i].pc # "done" /\ cycles'[i].pc = "done"

InFlight(i) == cycles[i].pc \in {"awaitFetch", "awaitJson"}

Names(tr) == [k \in 1..Len(tr) |-> tr[k].ev]

Count(tr, ev) == Cardinality({k \in 1..Len(tr) : tr[k].ev = ev})

\* the label the trigger showed when the cycle entered the busy state
LabelBefore(tr) == tr[CHOOSE k \in 1..Len(tr) : tr[k].ev = "busy"].arg

AllPresent == \A e \in Elements : present[e]

\* exactly two alphabetic (capital) characters
TwoLetters(t) == Len(t) = 2 /\ t[1] \in UpperSet /\ t[2] \in UpperSet

FailureOutcomes == {"validation", "network", "http", "parse"}

\* ---- C1
\* C1 as stated: every invocation that entered the busy state ends, on every
\* exit path, with the trigger re-enabled and showing the label it showed
\* before that invocation.
C1_LabelBeforeRestored ==
  [][\A i \in CycleIds :
       (Finishing(i) /\ Count(cycles'[i].trace, "busy") > 0)
         => /\ ~ui'.btnDisabled
            /\ ui'.btnLabel = LabelBefore(cycles'[i].trace)]_vars

\* C1 as amended: every invocation that entered the busy state ends, on every
\* exit path (success, validation failure, fetch failure, rendering
\* exception), with the trigger re-enabled and showing the fixed label
\* 'Get Weather Alerts', having released the busy state exactly once.
C1_BusyReleased ==
  [][\A i \in CycleIds :
       (Finishing(i) /\ Count(cycles'[i].trace, "busy") > 0)
         => /\ ~ui'.btnDisabled
            /\ ui'.btnLabel = IdleLabel
            /\ Count(cycles'[i].trace, "unbusy") = 1
            /\ cycles'[i].trace[Len(cycles'[i].trace)].ev = "unbusy"]_vars

\* a cycle whose rendering raised has ended with the trigger released
C1_Witness ==
  \E i \in CycleIds :
    /\ cycles[i].outcome = "render"
    /\ Count(cycles[i].trace, "busy") = 1
    /\ ~ui.btnDisabled /\ ui.btnLabel = IdleLabel

\* ---- C2
\* C2: a trigger cycle whose raw input fails validation (blank after trimming,
\* or not two letters after trim and uppercase) ends without a request and
\* with the validator's message on the error surface; a cycle that does issue
\* a request issues it for an area matching ^[A-Z]{2}$.
C2_NoRequestForInvalidInput ==
  [][\A i \in CycleIds :
       (Starting(i) /\ present["state-input"])
         => LET raw == ui.inputValue
                invalid == Trim(raw) = <<>> \/ ~TwoLetters(ToUpperCase(Trim(raw)))
            IN /\ invalid
                 => /\ cycles'[i].pc = "done"
                    /\ Count(cycles'[i].trace, "GET") = 0
                    /\ cycles'[i].area = <<>>
                    /\ cycles'[i].error = validateStateInput(JSString(raw)).message
                    /\ cycles'[i].error \in {EmptyInputMessage, WrongFormatMessage}
                    /\ present["error-message"]
                         => ui'.errText = cycles'[i].error /\ ~ui'.errHidden
               /\ cycles'[i].pc = "awaitFetch"
                 => /\ ~invalid
                    /\ TwoLetters(cycles'[i].area)
                    /\ Count(cycles'[i].trace, "GET") = 1]_vars

\* a cycle on raw input "1" has ended with the format message and no request
C2_Witness ==
  \E i \in CycleIds :
    /\ cycles[i].outcome = "validation"
    /\ cycles[i].error = WrongFormatMessage
    /\ ui.inputValue = <<"1">>
    /\ ui.errText = WrongFormatMessage /\ ~ui.errHidden
    /\ Count(cycles[i].trace, "GET") = 0

\* ---- C3
\* C3: with every element present, a cycle with valid input and a successful
\* response makes these calls exactly once each and in this order: error
\* surface cleared, trigger disabled with the loading label, one GET for the
\* trimmed and uppercased code, success render, input cleared, trigger
\* re-enabled with its label.
C3_SuccessOrder ==
  [][\A i \in CycleIds :
       AllPresent
         => /\ (Starting(i) /\ cycles'[i].pc = "awaitFetch")
                 => /\ Names(cycles'[i].trace) = <<"clearError", "busy", "GET">>
                    /\ cycles'[i].area = ToUpperCase(Trim(ui.inputValue))
                    /\ ui'.errText = "" /\ ui'.errHidden
                    /\ ui'.btnDisabled /\ ui'.btnLabel = LoadingLabel
            /\ (Finishing(i) /\ cycles'[i].outcome = "success")
                 => /\ Names(cycles'[i].trace) =
                         <<"clearError", "busy", "GET", "displayAlerts", "clearInput",
                           "unbusy">>
                    /\ Len(ui'.display) > 0
                    /\ ui'.inputValue = <<>>
                    /\ ~ui'.btnDisabled /\ ui'.btnLabel = IdleLabel]_vars

\* a cycle has run the whole success path on the two-alert payload
C3_Witness ==
  \E i \in CycleIds :
    /\ AllPresent
    /\ cycles[i].outcome = "success"
    /\ cycles[i].data = TwoAlerts
    /\ Len(cycles[i].trace) = 6
    /\ Len(ui.display) = 2
    /\ ui.inputValue = <<>>

C5_FailuresCaughtAndShown ==
  \A i \in CycleIds :
    /\ ~cycles[i].uncaught /\ cycles[i].outcome # "uncaught"
    /\ cycles[i].outcome \in FailureOutcomes
         => LET tr == cycles[i].trace
            IN /\ cycles[i].pc = "done"
               /\ Count(tr, "displayError") = 1
               /\ Count(tr, "displayAlerts") = 0
               /\ \A k \in 1..Len(tr) :
                    tr[k].ev = "displayError" => tr[k].arg = cycles[i].error
               /\ cycles[i].outcome = "validation"
                    => cycles[i].error \in {EmptyInputMessage, WrongFormatMessage}
               /\ cycles[i].outcome = "network" => cycles[i].error = NetworkErrorMessage
               /\ cycles[i].outcome = "parse" => cycles[i].error = ParseErrorMessage
               /\ cycles[i].outcome = "http"
                    => /\ ~cycles[i].response.ok
                       /\ cycles[i].response.status = 500
                            => cycles[i].error = "API Error: 500 Internal Server Error"
                       /\ cycles[i].response.status = 404
                            => cycles[i].error = "API Error: 404 Not Found"

\* a status-500 response has been shown on the error surface
C5_Witness ==
  \E i \in CycleIds :
    /\ cycles[i].outcome = "http"
    /\ cycles[i].response.status = 500
    /\ ui.errText = "API Error: 500 Internal Server Error" /\ ~ui.errHidden

\* ---- C6
\* C6 as stated: whenever a request of a trigger cycle is in flight the
\* trigger is disabled and shows the loading label, under every interleaving
\* of activations.
C6_DisabledWhileInFlight ==
  \A i \in CycleIds :
    (InFlight(i) /\ present["fetch-alerts"])
      => ui.btnDisabled /\ ui.btnLabel = LoadingLabel

\* C6 as amended: when a trigger cycle issues its request the trigger is
\* disabled and shows the loading label, and it stays so until the exit-busy
\* step of some cycle runs, that cycle's own or an overlapping one's.
C6_DisabledUntilSomeCycleEnds ==
  [][/\ \A i \in CycleIds :
          (Starting(i) /\ InFlight(i)' /\ present["fetch-alerts"])
            => ui'.btnDisabled /\ ui'.btnLabel = LoadingLabel
     /\ (ui.btnDisabled /\ (~ui'.btnDisabled \/ ui'.btnLabel # LoadingLabel))
          => \E j \in CycleIds : Finishing(j)
     /\ (ui.btnDisabled /\ present["fetch-alerts"])
          => ui.btnLabel = LoadingLabel /\ \E j \in CycleIds : InFlight(j)]_vars

\* two requests are in flight at once, the trigger disabled
C6_Witness ==
  /\ \E i, j \in CycleIds : i # j /\ InFlight(i) /\ InFlight(j)
  /\ ui.btnDisabled /\ ui.btnLabel = LoadingLabel

\* ---- C7
AlertCount(data) == IF data.features.present THEN Len(data.features.list) ELSE 0

\* an optional string that is absent or, when emptyIsAbsent, empty
Lacking(opt, emptyIsAbsent) == opt = <<>> \/ (emptyIsAbsent /\ opt = <<"">>)

\* the title C7 expects in the summary
ExpectedTitle(data, emptyIsAbsent) ==
  IF Lacking(data.title, emptyIsAbsent) THEN DefaultTitle ELSE data.title[1]

\* the list item C7 expects for an alert
ExpectedItem(alert, emptyIsAbsent) ==
  IF ~alert.properties \/ Lacking(alert.headline, emptyIsAbsent)
  THEN NoHeadline ELSE alert.headline[1]

\* what C7 says the display holds after displayAlerts(data)
Rendering(data, emptyIsAbsent) ==
  LET count == AlertCount(data)
  IN /\ Len(ui.display) = (IF count > 0 THEN 2 ELSE 1)
     /\ ui.display[1].tag = "p"
     /\ ui.display[1].textContent =
          ExpectedTitle(data, emptyIsAbsent) \o ": " \o DecStr(count)
     /\ count > 0
          => /\ ui.display[2].tag = "ul"
             /\ Len(ui.display[2].items) = count
             /\ \A k \in 1..count :
                  ui.display[2].items[k] =
                    ExpectedItem(data.features.list[k], emptyIsAbsent)

\* C7 as stated: after displayAlerts the display holds only the summary
\* "{title}: {count}", title being the response title or the default when
\* absent, and, when count > 0, one list of count items in response order,
\* each the headline or the placeholder when the headline is missing.
C7_DefaultsOnlyWhenAbsent ==
  cycles[1].data.kind = "object" => Rendering(cycles[1].data, FALSE)

\* C7 as amended: the same, the default title and the placeholder headline
\* standing in for a string that is absent or empty.
C7_DefaultsWhenAbsentOrEmpty ==
  cycles[1].data.kind = "object" => Rendering(cycles[1].data, TRUE)

\* "T: 2" over the items H1 and the placeholder has been rendered
C7_Witness ==
  /\ cycles[1].data = TwoAlerts
  /\ ui.display = <<Paragraph("T: 2"), List(<<"H1", "No headline available">>)>>

C9_AbsentElementsAreNotFatal ==
  /\ ~present["alerts-display"]
       => \A data \in Bodies : displayAlerts(ui, data) = Completed(ui)
  /\ ~present["error-message"]
       => /\ clearError(ui) = Completed(ui)
          /\ \A message \in {EmptyInputMessage, NetworkErrorMessage, NullDataMessage} :
               displayError(ui, message) = Completed(ui)
  /\ ~present["state-input"] => clearInput(ui) = Completed(ui)
  /\ \A i \in CycleIds :
       /\ ~cycles[i].uncaught /\ cycles[i].outcome # "uncaught"
       /\ (cycles[i].pc = "done" /\ ~present["error-message"])
            => ui.errText = InitialUi.errText /\ ui.errHidden = InitialUi.errHidden
       /\ (cycles[i].pc = "done" /\ ~present["alerts-display"])
            => ui.display = InitialUi.display
       /\ (cycles[i].pc = "done" /\ ~present["fetch-alerts"])
            => ui.btnDisabled = InitialUi.btnDisabled /\ ui.btnLabel = InitialUi.btnLabel

\* with the display, the error surface and the trigger all absent, one cycle
\* has ended in success and another in an HTTP failure
C9_Witness ==
  /\ ~present["alerts-display"] /\ ~present["error-message"] /\ ~present["fetch-alerts"]
  /\ \E i, j \in CycleIds :
       /\ cycles[i].outcome = "success" /\ Count(cycles[i].trace, "displayAlerts") = 1
       /\ cycles[j].outcome = "http" /\ Count(cycles[j].trace, "displayError") = 1

\* ---- C10
\* C10: no step of a trigger cycle that fails in validation or in the fetch
\* changes the input value or the display content, and a step of a cycle
\* changes the input value only when that cycle ends after a successful
\* render.
C10_FailureLeavesInputAndDisplay ==
  [][\A i \in CycleIds :
       /\ (cycles'[i] # cycles[i] /\ cycles'[i].outcome \in FailureOutcomes \cup {"none"})
            => /\ ui'.inputValue = ui.inputValue
               /\ ui'.display = ui.display
       /\ (cycles'[i] # cycles[i] /\ ui'.inputValue # ui.inputValue)
            => /\ Finishing(i)
               /\ cycles'[i].outcome = "success"
               /\ ui'.inputValue = <<>>
               /\ Count(cycles'[i].trace, "displayAlerts") = 1
               /\ Count(cycles'[i].trace, "displayError") = 0]_vars

\* a fetch failed with the typed input and an earlier rendering still in place
C10_Witness ==
  \E i \in CycleIds :
    /\ cycles[i].outcome = "network"
    /\ ui.inputValue = <<"n", "Y">>
    /\ Len(ui.display) = 2
    /\ ui.errText = NetworkErrorMessage

====
